---- MODULE Spec2Model ----
(***************************************************************************)
(* Storage layer of the prayer-intention / prayer-challenge application:   *)
(* server/storage.ts (DatabaseStorageImpl and InMemoryStorage behind the   *)
(* IStorage interface), seeded as server/routes.ts seeds it.               *)
(*                                                                         *)
(* A table is a sequence of rows.  Every DatabaseStorage method awaits     *)
(* between its SQL statements, so a method whose body issues two           *)
(* statements is two steps that other callers may interleave with; every   *)
(* InMemoryStorage method has no await in its body and is one step.        *)
(* JavaScript's undefined / null / true / false are the strings below;     *)
(* an optional number is a sequence of length 0 or 1.                      *)
(***************************************************************************)
EXTENDS Integers, Sequences, FiniteSets, TLC

VARIABLES
  backend,        \* "db" (DATABASE_URL set) or "memory"
  challenges,     \* the challenges table / InMemoryStorage.challenges
  intentions,     \* the intentions table / InMemoryStorage.intentions
  challengeId,    \* next challenge id (serial / this.challengeId)
  intentionId,    \* next intention id (serial / this.intentionId)
  clock,          \* wall clock read by now() / new Date()
  pending,        \* per caller: the storage call it is suspended in
  ret,            \* per caller: what its last completed call returned
  lastActivated,  \* history: id last stored with isActive = true by a create/update
  deleted,        \* history: ids of the challenges a completed deleteChallenge removed
  chAdded,        \* history: per stored challenge, sum of amounts of completed increments
  inAdded,        \* history: per intention id and type, completed prayer increments
  created,        \* history: id, content, name and time of each completed createIntention
  marked,         \* history: ids of the intentions a completed markIntentionPrinted found
  http,           \* per caller: the request its route handler serves and the response
  twin            \* a DatabaseStorageImpl and an InMemoryStorage given the same calls

vars == <<backend, challenges, intentions, challengeId, intentionId, clock,
          pending, ret, lastActivated, deleted, chAdded, inAdded, created, marked,
          http, twin>>

chVars == <<challenges, challengeId, lastActivated, deleted, chAdded>>
inVars == <<intentions, intentionId, inAdded, created, marked>>

----------------------------------------------------------------------------
(* Bounds of the model *)

MaxChallengeId == 2
MaxIntentionId == 3
MaxClock == 1
MaxAdded == 2
MaxPrayers == 1
MaxRequests == 2
MaxCalls == 3

(* Values of the seed in server/routes.ts *)
SeedCurrentCount == 42
SeedHailMary1 == 5
SeedOurFather1 == 2
SeedRosary1 == 1
SeedHailMary2 == 12

Callers == {1, 2}
ChallengeIds == 1..(MaxChallengeId + 1)
IntentionIds == 1..(MaxIntentionId + 1)
Amounts == {1, 2}
Titles == {"A"}
Contents == {"Test"}
Names == {"Anon", "undefined"}
PrayerTypes == {"hailMary", "ourFather", "rosary"}

Idle == [op |-> "idle"]
NoResult == [op |-> "none", kind |-> "void", rows |-> <<>>, id |-> 0, asked |-> "none"]

Range(s) == {s[i] : i \in DOMAIN s}

(* InsertChallenge as the API's zod schema admits it: isActive is optional
   and nullable, currentCount is stripped (only the seed passes it). *)
CreateChallengeInputs ==
  [title : Titles, isActive : {"true", "false", "null", "undefined"},
   currentCount : {<<>>}]

(* Partial<InsertChallenge> with at least one key present. *)
UpdateChallengeInputs ==
  {u \in [title : Titles \cup {"undefined"},
          isActive : {"true", "false", "null", "undefined"}] :
     u.title # "undefined" \/ u.isActive # "undefined"}

(* InsertIntention: content required, name and prayerType optional. *)
CreateIntentionInputs ==
  {i \in [content : Contents, name : Names, prayerType : {"Rosary", "undefined"},
          hailMaryCount : {<<>>}, ourFatherCount : {<<>>}, rosaryCount : {<<>>},
          isPrinted : {"undefined"}] :
     (i.name = "undefined") = (i.prayerType = "undefined")}

----------------------------------------------------------------------------
(* Helpers shared by both stores *)

\* JavaScript truthiness of an isActive value: if (challenge.isActive)
Truthy(v) == v = "true"

\* x || 0 on an optional number; the column default 0 of the schema
OrZero(opt) == IF opt = <<>> THEN 0 ELSE opt[1]

\* What a call returned: kind is "value" (one record, in rows), "undefined",
\* "void", "list" (rows) or "throws"; id and asked repeat the call's id
\* argument (0 when it has none) and the isActive it asked for.
Result(op, kind, rows, id) ==
  [op |-> op, kind |-> kind, rows |-> rows, id |-> id, asked |-> "none"]

\* const [updated] = await ... .returning(); return updated
\* const it = find(...); if (!it) return undefined; ...; return it
ReturningThrows(op, id, rows) ==
  IF rows = <<>> THEN Result(op, "throws", <<>>, id)
  ELSE Result(op, "value", <<rows[1]>>, id)

Returning(op, id, rows) ==
  IF rows = <<>> THEN Result(op, "undefined", <<>>, id)
  ELSE Result(op, "value", <<rows[1]>>, id)

Asking(result, input) == [result EXCEPT !.asked = input.isActive]

WhereId(rows, id) == SelectSeq(rows, LAMBDA r : r.id = id)

\* .set(updates) / Object.assign(ch, updates): keys absent from updates are kept
MergeUpdatesDropsActive(c, u) ==
  [c EXCEPT !.title = IF u.title = "undefined" THEN @ ELSE u.title]

MergeUpdates(c, u) ==
  [c EXCEPT !.title = IF u.title = "undefined" THEN @ ELSE u.title,
            !.isActive = IF u.isActive = "undefined" THEN @ ELSE u.isActive]

\* counter = counter + delta
AddDeltaOverwrites(v, delta) == delta

AddDelta(v, delta) == v + delta

\* Insertion of r into a sequence sorted by createdAt descending, after
\* every row whose createdAt is >= r.createdAt (a stable sort).
RECURSIVE InsertDesc(_, _)
InsertDesc(sorted, r) ==
  IF sorted = <<>> THEN <<r>>
  ELSE IF Head(sorted).createdAt >= r.createdAt
       THEN <<Head(sorted)>> \o InsertDesc(Tail(sorted), r)
       ELSE <<r>> \o sorted

RECURSIVE SortDescStable(_)
SortDescStable(rows) ==
  IF rows = <<>> THEN <<>>
  ELSE InsertDesc(SortDescStable(SubSeq(rows, 1, Len(rows) - 1)), rows[Len(rows)])

IsDesc(s) == \A i \in 1..(Len(s) - 1) : s[i].createdAt >= s[i + 1].createdAt

\* ORDER BY created_at DESC: any order of the rows that is descending
OrderByDesc(rows) ==
  {s \in [1..Len(rows) -> Range(rows)] :
     /\ \A i, j \in 1..Len(rows) : i # j => s[i] # s[j]
     /\ IsDesc(s)}

----------------------------------------------------------------------------
(* Challenge rows *)

NewChallengeRow(id, input, isActive, now) ==
  [id |-> id, title |-> input.title, isActive |-> isActive,
   currentCount |-> OrZero(input.currentCount), createdAt |-> now]

\* db.update(challenges).set({ isActive: false }).where(eq(challenges.isActive, true))
DbClearActiveNone(chs) == chs

DbClearActive(chs) ==
  [i \in DOMAIN chs |->
     IF chs[i].isActive = "true" THEN [chs[i] EXCEPT !.isActive = "false"]
     ELSE chs[i]]

\* db.insert(challenges).values(challenge): an absent isActive takes the
\* column default true, an absent currentCount the default 0
DbInsertChallenge(chs, input, id, now) ==
  Append(chs, NewChallengeRow(id, input,
                IF input.isActive = "undefined" THEN "true" ELSE input.isActive,
                now))

\* db.update(challenges).set(updates).where(eq(challenges.id, id))
DbSetChallenge(chs, id, updates) ==
  [i \in DOMAIN chs |->
     IF chs[i].id = id THEN MergeUpdates(chs[i], updates) ELSE chs[i]]

\* db.delete(challenges).where(eq(challenges.id, id))
DbDeleteKeepsRow(chs, id) == chs

DbDeleteWhereId(chs, id) == SelectSeq(chs, LAMBDA c : c.id # id)

\* set({ currentCount: sql`current_count + amount` }).where(eq(challenges.id, id))
DbAddCurrentCount(chs, id, amount) ==
  [i \in DOMAIN chs |->
     IF chs[i].id = id
     THEN [chs[i] EXCEPT !.currentCount = AddDelta(@, amount)]
     ELSE chs[i]]

\* select().from(challenges).where(eq(challenges.isActive, true)).limit(1):
\* no ORDER BY, so any one of the active rows
DbActiveRows(chs) == SelectSeq(chs, LAMBDA c : c.isActive = "true")

\* this.challenges.forEach((c) => (c.isActive = false))
MemClearAll(chs) == [i \in DOMAIN chs |-> [chs[i] EXCEPT !.isActive = "false"]]

\* InMemoryStorage.createChallenge: the spread keeps isActive as given
MemCreateChallengeRows(chs, input, id, now) ==
  Append(IF Truthy(input.isActive) THEN MemClearAll(chs) ELSE chs,
         NewChallengeRow(id, input, input.isActive, now))

\* InMemoryStorage.updateChallenge, for an id that exists
MemUpdateChallengeRows(chs, id, updates) ==
  LET base == IF Truthy(updates.isActive) THEN MemClearAll(chs) ELSE chs
  IN  [i \in DOMAIN base |->
         IF base[i].id = id THEN MergeUpdates(base[i], updates) ELSE base[i]]

\* this.challenges.filter((c) => c.id !== id)
MemDeleteFilter(chs, id) == SelectSeq(chs, LAMBDA c : c.id # id)

MemAddCurrentCount(chs, id, amount) ==
  [i \in DOMAIN chs |->
     IF chs[i].id = id
     THEN [chs[i] EXCEPT !.currentCount = AddDelta(@, amount)]
     ELSE chs[i]]

\* this.challenges.find((c) => c.isActive): the first truthy row
MemFindActive(chs) == SelectSeq(chs, LAMBDA c : Truthy(c.isActive))

----------------------------------------------------------------------------
(* Bookkeeping of a call's completion *)

IdleCaller(p) == pending[p].op = "idle"

Complete(p, result) ==
  /\ pending' = [pending EXCEPT ![p] = Idle]
  /\ ret' = [ret EXCEPT ![p] = result]
  /\ UNCHANGED <<http, twin>>

Suspend(p, call, result) ==
  /\ pending' = [pending EXCEPT ![p] = call]
  /\ ret' = [ret EXCEPT ![p] = result]
  /\ UNCHANGED <<http, twin>>

RECURSIVE SumOver(_, _)
SumOver(f, S) ==
  IF S = {} THEN 0
  ELSE LET x == CHOOSE y \in S : TRUE IN f[x] + SumOver(f, S \ {x})

TotalChAdded == SumOver(chAdded, DOMAIN chAdded)

----------------------------------------------------------------------------
(* InMemoryStorage: challenges *)

MemCreateChallenge(p, input) ==
  /\ backend = "memory" /\ IdleCaller(p)
  /\ challengeId <= MaxChallengeId
  /\ challenges' = MemCreateChallengeRows(challenges, input, challengeId, clock)
  /\ challengeId' = challengeId + 1
  /\ lastActivated' = IF Truthy(input.isActive) THEN challengeId ELSE lastActivated
  /\ Complete(p, Asking(Returning("createChallenge", 0,
                                     WhereId(challenges', challengeId)), input))
  /\ UNCHANGED <<backend, clock, deleted, chAdded, inVars>>

MemGetChallenges(p) ==
  /\ backend = "memory" /\ IdleCaller(p)
  /\ Complete(p, Result("getChallenges", "list", SortDescStable(challenges), 0))
  /\ UNCHANGED <<backend, clock, chVars, inVars>>

MemGetActiveChallenge(p) ==
  /\ backend = "memory" /\ IdleCaller(p)
  /\ Complete(p, Returning("getActiveChallenge", 0, MemFindActive(challenges)))
  /\ UNCHANGED <<backend, clock, chVars, inVars>>

MemUpdateChallenge(p, id, updates) ==
  /\ backend = "memory" /\ IdleCaller(p)
  /\ IF WhereId(challenges, id) = <<>>
     THEN /\ Complete(p, Asking(Returning("updateChallenge", id, <<>>), updates))
          /\ UNCHANGED <<challenges, lastActivated>>
     ELSE /\ challenges' = MemUpdateChallengeRows(challenges, id, updates)
          /\ lastActivated' = IF Truthy(updates.isActive) THEN id ELSE lastActivated
          /\ Complete(p, Asking(Returning("updateChallenge", id,
                                             WhereId(challenges', id)), updates))
  /\ UNCHANGED <<backend, clock, challengeId, deleted, chAdded, inVars>>

MemDeleteChallenge(p, id) ==
  /\ backend = "memory" /\ IdleCaller(p)
  /\ challenges' = MemDeleteFilter(challenges, id)
  /\ deleted' = IF WhereId(challenges, id) # <<>> THEN deleted \cup {id} ELSE deleted
  /\ chAdded' = [chAdded EXCEPT ![id] = 0]
  /\ Complete(p, Result("deleteChallenge", "void", <<>>, id))
  /\ UNCHANGED <<backend, clock, challengeId, lastActivated, inVars>>

MemIncrementChallenge(p, id, amount) ==
  /\ backend = "memory" /\ IdleCaller(p)
  /\ IF WhereId(challenges, id) = <<>>
     THEN /\ Complete(p, Returning("incrementChallenge", id, <<>>))
          /\ UNCHANGED <<challenges, chAdded>>
     ELSE /\ TotalChAdded + amount <= MaxAdded
          /\ challenges' = MemAddCurrentCount(challenges, id, amount)
          /\ chAdded' = [chAdded EXCEPT ![id] = @ + amount]
          /\ Complete(p, Returning("incrementChallenge", id, WhereId(challenges', id)))
  /\ UNCHANGED <<backend, clock, challengeId, lastActivated, deleted, inVars>>

----------------------------------------------------------------------------
(* DatabaseStorage: challenges.  The first step of a call runs up to the
   end of its first statement; createChallenge and updateChallenge then wait
   for their second statement. *)

DbCreateChallenge(p, input) ==
  /\ backend = "db" /\ IdleCaller(p)
  /\ challengeId <= MaxChallengeId
  /\ challenges' = IF Truthy(input.isActive) THEN DbClearActive(challenges)
                   ELSE challenges
  /\ Suspend(p, [op |-> "createChallenge", input |-> input], ret[p])
  /\ UNCHANGED <<backend, clock, challengeId, lastActivated, deleted, chAdded, inVars>>

DbCreateChallengeInsert(p) ==
  /\ backend = "db" /\ pending[p].op = "createChallenge"
  /\ challenges' = DbInsertChallenge(challenges, pending[p].input, challengeId, clock)
  /\ challengeId' = challengeId + 1
  /\ lastActivated' = IF WhereId(challenges', challengeId)[1].isActive = "true"
                      THEN challengeId ELSE lastActivated
  /\ Complete(p, Asking(Returning("createChallenge", 0,
                                     WhereId(challenges', challengeId)),
                           pending[p].input))
  /\ UNCHANGED <<backend, clock, deleted, chAdded, inVars>>

DbGetChallenges(p) ==
  /\ backend = "db" /\ IdleCaller(p)
  /\ \E s \in OrderByDesc(challenges) :
       Complete(p, Result("getChallenges", "list", s, 0))
  /\ UNCHANGED <<backend, clock, chVars, inVars>>

DbGetActiveChallenge(p) ==
  /\ backend = "db" /\ IdleCaller(p)
  /\ LET active == DbActiveRows(challenges)
     IN  IF active = <<>>
         THEN Complete(p, Returning("getActiveChallenge", 0, <<>>))
         ELSE \E i \in DOMAIN active :
                Complete(p, Returning("getActiveChallenge", 0, <<active[i]>>))
  /\ UNCHANGED <<backend, clock, chVars, inVars>>

DbUpdateChallenge(p, id, updates) ==
  /\ backend = "db" /\ IdleCaller(p)
  /\ challenges' = IF Truthy(updates.isActive) THEN DbClearActive(challenges)
                   ELSE challenges
  /\ Suspend(p, [op |-> "updateChallenge", id |-> id, updates |-> updates], ret[p])
  /\ UNCHANGED <<backend, clock, challengeId, lastActivated, deleted, chAdded, inVars>>

DbUpdateChallengeSet(p) ==
  /\ backend = "db" /\ pending[p].op = "updateChallenge"
  /\ LET id == pending[p].id
         updates == pending[p].updates
     IN  /\ challenges' = DbSetChallenge(challenges, id, updates)
         /\ lastActivated' = IF /\ WhereId(challenges, id) # <<>>
                                /\ Truthy(updates.isActive)
                             THEN id ELSE lastActivated
         /\ Complete(p, Asking(Returning("updateChallenge", id,
                                            WhereId(challenges', id)), updates))
  /\ UNCHANGED <<backend, clock, challengeId, deleted, chAdded, inVars>>

DbDeleteChallenge(p, id) ==
  /\ backend = "db" /\ IdleCaller(p)
  /\ challenges' = DbDeleteWhereId(challenges, id)
  /\ deleted' = IF WhereId(challenges, id) # <<>> THEN deleted \cup {id} ELSE deleted
  /\ chAdded' = [chAdded EXCEPT ![id] = 0]
  /\ Complete(p, Result("deleteChallenge", "void", <<>>, id))
  /\ UNCHANGED <<backend, clock, challengeId, lastActivated, inVars>>

DbIncrementChallenge(p, id, amount) ==
  /\ backend = "db" /\ IdleCaller(p)
  /\ WhereId(challenges, id) # <<>> => TotalChAdded + amount <= MaxAdded
  /\ challenges' = DbAddCurrentCount(challenges, id, amount)
  /\ chAdded' = IF WhereId(challenges, id) # <<>>
                THEN [chAdded EXCEPT ![id] = @ + amount] ELSE chAdded
  /\ Complete(p, Returning("incrementChallenge", id, WhereId(challenges', id)))
  /\ UNCHANGED <<backend, clock, challengeId, lastActivated, deleted, inVars>>

----------------------------------------------------------------------------
(* Intention rows *)

NewIntentionRow(id, input, name, prayerType, isPrinted, now) ==
  [id |-> id, content |-> input.content, name |-> name, prayerType |-> prayerType,
   hailMaryCount |-> OrZero(input.hailMaryCount),
   ourFatherCount |-> OrZero(input.ourFatherCount),
   rosaryCount |-> OrZero(input.rosaryCount),
   isPrinted |-> isPrinted, createdAt |-> now]

\* db.insert(intentions).values(intention): an absent nullable column is
\* NULL, an absent counter 0, an absent isPrinted false
DbInsertIntention(ins, input, id, now) ==
  Append(ins, NewIntentionRow(id, input,
                IF input.name = "undefined" THEN "null" ELSE input.name,
                IF input.prayerType = "undefined" THEN "null" ELSE input.prayerType,
                IF input.isPrinted = "undefined" THEN "false" ELSE input.isPrinted,
                now))

\* InMemoryStorage.createIntention: the spread keeps name and prayerType as
\* given; counters are x || 0 and isPrinted is !!x
MemCreateIntentionRows(ins, input, id, now) ==
  Append(ins, NewIntentionRow(id, input, input.name, input.prayerType,
                IF Truthy(input.isPrinted) THEN "true" ELSE "false", now))

\* the counter that a prayer type names
AddPrayerAlsoRosary(row, type) ==
  IF type = "hailMary" THEN [row EXCEPT !.hailMaryCount = AddDelta(@, 1)]
  ELSE IF type = "ourFather"
  THEN [row EXCEPT !.ourFatherCount = AddDelta(@, 1), !.rosaryCount = AddDelta(@, 1)]
  ELSE [row EXCEPT !.rosaryCount = AddDelta(@, 1)]

AddPrayer(row, type) ==
  IF type = "hailMary" THEN [row EXCEPT !.hailMaryCount = AddDelta(@, 1)]
  ELSE IF type = "ourFather" THEN [row EXCEPT !.ourFatherCount = AddDelta(@, 1)]
  ELSE [row EXCEPT !.rosaryCount = AddDelta(@, 1)]

\* db.update(intentions).set(updateSet).where(eq(intentions.id, id))
DbAddPrayer(ins, id, type) ==
  [i \in DOMAIN ins |-> IF ins[i].id = id THEN AddPrayer(ins[i], type) ELSE ins[i]]

\* db.update(intentions).set({ isPrinted: true }).where(eq(intentions.id, id))
DbSetPrintedAll(ins, id) ==
  [i \in DOMAIN ins |-> [ins[i] EXCEPT !.isPrinted = "true"]]

DbSetPrinted(ins, id) ==
  [i \in DOMAIN ins |->
     IF ins[i].id = id THEN [ins[i] EXCEPT !.isPrinted = "true"] ELSE ins[i]]

MemAddPrayer(ins, id, type) ==
  [i \in DOMAIN ins |-> IF ins[i].id = id THEN AddPrayer(ins[i], type) ELSE ins[i]]

MemSetPrinted(ins, id) ==
  [i \in DOMAIN ins |->
     IF ins[i].id = id THEN [ins[i] EXCEPT !.isPrinted = "true"] ELSE ins[i]]

TotalInAdded ==
  SumOver([i \in DOMAIN inAdded |-> SumOver(inAdded[i], PrayerTypes)], DOMAIN inAdded)

----------------------------------------------------------------------------
(* InMemoryStorage: intentions *)

MemCreateIntention(p, input) ==
  /\ backend = "memory" /\ IdleCaller(p)
  /\ intentionId <= MaxIntentionId
  /\ intentions' = MemCreateIntentionRows(intentions, input, intentionId, clock)
  /\ intentionId' = intentionId + 1
  /\ created' = created \cup {[id |-> intentionId, content |-> input.content,
                                name |-> input.name, at |-> clock]}
  /\ Complete(p, Returning("createIntention", 0, WhereId(intentions', intentionId)))
  /\ UNCHANGED <<backend, clock, inAdded, marked, chVars>>

MemGetIntentions(p) ==
  /\ backend = "memory" /\ IdleCaller(p)
  /\ Complete(p, Result("getIntentions", "list", SortDescStable(intentions), 0))
  /\ UNCHANGED <<backend, clock, chVars, inVars>>

MemIncrementIntentionPrayer(p, id, type) ==
  /\ backend = "memory" /\ IdleCaller(p)
  /\ IF WhereId(intentions, id) = <<>>
     THEN /\ Complete(p, Returning("incrementIntentionPrayer", id, <<>>))
          /\ UNCHANGED <<intentions, inAdded>>
     ELSE /\ TotalInAdded < MaxPrayers
          /\ intentions' = MemAddPrayer(intentions, id, type)
          /\ inAdded' = [inAdded EXCEPT ![id][type] = @ + 1]
          /\ Complete(p, Returning("incrementIntentionPrayer", id, WhereId(intentions', id)))
  /\ UNCHANGED <<backend, clock, intentionId, created, marked, chVars>>

MemMarkIntentionPrinted(p, id) ==
  /\ backend = "memory" /\ IdleCaller(p)
  /\ IF WhereId(intentions, id) = <<>>
     THEN /\ Complete(p, Returning("markIntentionPrinted", id, <<>>))
          /\ UNCHANGED <<intentions, marked>>
     ELSE /\ intentions' = MemSetPrinted(intentions, id)
          /\ marked' = marked \cup {id}
          /\ Complete(p, Returning("markIntentionPrinted", id, WhereId(intentions', id)))
  /\ UNCHANGED <<backend, clock, intentionId, inAdded, created, chVars>>

----------------------------------------------------------------------------
(* DatabaseStorageImpl: intentions (one statement each) *)

DbCreateIntention(p, input) ==
  /\ backend = "db" /\ IdleCaller(p)
  /\ intentionId <= MaxIntentionId
  /\ intentions' = DbInsertIntention(intentions, input, intentionId, clock)
  /\ intentionId' = intentionId + 1
  /\ created' = created \cup {[id |-> intentionId, content |-> input.content,
                                name |-> input.name, at |-> clock]}
  /\ Complete(p, Returning("createIntention", 0, WhereId(intentions', intentionId)))
  /\ UNCHANGED <<backend, clock, inAdded, marked, chVars>>

DbGetIntentions(p) ==
  /\ backend = "db" /\ IdleCaller(p)
  /\ \E s \in OrderByDesc(intentions) :
       Complete(p, Result("getIntentions", "list", s, 0))
  /\ UNCHANGED <<backend, clock, chVars, inVars>>

DbIncrementIntentionPrayerImpl(p, id, type) ==
  /\ backend = "db" /\ IdleCaller(p)
  /\ WhereId(intentions, id) # <<>> => TotalInAdded < MaxPrayers
  /\ intentions' = DbAddPrayer(intentions, id, type)
  /\ inAdded' = IF WhereId(intentions, id) # <<>>
                THEN [inAdded EXCEPT ![id][type] = @ + 1] ELSE inAdded
  /\ Complete(p, Returning("incrementIntentionPrayer", id, WhereId(intentions', id)))
  /\ UNCHANGED <<backend, clock, intentionId, created, marked, chVars>>

DbMarkIntentionPrinted(p, id) ==
  /\ backend = "db" /\ IdleCaller(p)
  /\ intentions' = DbSetPrinted(intentions, id)
  /\ marked' = IF WhereId(intentions, id) # <<>> THEN marked \cup {id} ELSE marked
  /\ Complete(p, Returning("markIntentionPrinted", id, WhereId(intentions', id)))
  /\ UNCHANGED <<backend, clock, intentionId, inAdded, created, chVars>>

----------------------------------------------------------------------------
(* Time passes between calls *)

Tick ==
  /\ clock < MaxClock
  /\ clock' = clock + 1
  /\ UNCHANGED <<backend, pending, ret, chVars, inVars, http, twin>>

----------------------------------------------------------------------------
(* The route handlers of server/routes.ts.  A handler is entered with a
   request, answers 400 at once when its validation fails, and otherwise
   awaits one storage call and answers from what the call returned.  Any
   statement of DatabaseStorage may reject (the connection to Postgres). *)

GetActiveRequests == {[route |-> "getActiveChallenge"]}
IncrementChallengeRequests ==
  [route : {"incrementChallenge"}, id : ChallengeIds, amount : Amounts]
GetIntentionsRequests == {[route |-> "getIntentions"]}
CreateIntentionRequests ==
  [route : {"createIntention"}, valid : BOOLEAN, input : CreateIntentionInputs]
PrayRequests ==
  [route : {"incrementIntentionPrayer"}, id : IntentionIds,
   type : PrayerTypes \cup {"glory"}]
GetChallengesRequests == {[route |-> "getChallenges"]}
CreateChallengeRequests ==
  [route : {"createChallenge"}, valid : BOOLEAN, input : CreateChallengeInputs]
UpdateChallengeRequests ==
  [route : {"updateChallenge"}, id : ChallengeIds, valid : BOOLEAN,
   input : UpdateChallengeInputs]
DeleteChallengeRequests == [route : {"deleteChallenge"}, id : ChallengeIds]
MarkPrintedRequests == [route : {"markIntentionPrinted"}, id : IntentionIds]

Requests ==
  GetActiveRequests \cup IncrementChallengeRequests \cup GetIntentionsRequests
  \cup CreateIntentionRequests \cup PrayRequests \cup GetChallengesRequests
  \cup CreateChallengeRequests \cup UpdateChallengeRequests
  \cup DeleteChallengeRequests \cup MarkPrintedRequests

NoRequest == [route |-> "none"]

\* a connection with no request on it
Quiet ==
  [req |-> NoRequest, phase |-> "idle", status |-> 0, body |-> <<>>, sent |-> 0,
   before |-> <<>>, served |-> 0]

\* history: the record that the request's :id names when the request arrives
Named(req) ==
  IF req.route \in {"incrementChallenge", "updateChallenge", "deleteChallenge"}
  THEN WhereId(challenges, req.id)
  ELSE IF req.route \in {"incrementIntentionPrayer", "markIntentionPrinted"}
  THEN WhereId(intentions, req.id)
  ELSE <<>>

\* api...input.parse(req.body) throws a ZodError /
\* !['hailMary', 'ourFather', 'rosary'].includes(type)
Invalid(req) ==
  IF req.route \in {"createIntention", "createChallenge", "updateChallenge"}
  THEN ~req.valid
  ELSE IF req.route = "incrementIntentionPrayer" THEN req.type \notin PrayerTypes
  ELSE FALSE

\* res.status(status).json(body) / .send(): one more response is written
Send(h, status, body) ==
  [h EXCEPT !.phase = "done", !.status = status, !.body = body, !.sent = @ + 1]

\* the handler returns without writing a response
NoSend(h) == [h EXCEPT !.phase = "done"]

\* An async handler with no try/catch whose storage call rejects: the
\* rejection reaches Express, whose version 5 answers it with the default
\* error handler and whose version 4 leaves the request unanswered.
Rejected(h) == {Send(h, 500, <<>>), NoSend(h)}

\* app.get(api.challenges.active.path): res.json(challenge || null)
\* app.get(api.intentions.list.path), app.get(api.admin.challenges.list.path)
GetRoute(h, result) ==
  IF result.kind = "throws" THEN Rejected(h) ELSE {Send(h, 200, result.rows)}

\* if (!record) return res.status(404).json(...); res.json(record): the
\* increment, pray and printed handlers
ByIdRoute(h, result) ==
  IF result.kind = "throws" THEN Rejected(h)
  ELSE IF result.kind = "undefined" THEN {Send(h, 404, <<>>)}
  ELSE {Send(h, 200, result.rows)}

\* app.post(api.intentions.create.path): the catch answers 500 to any error
\* that is not a ZodError
CreateIntentionRoute(h, result) ==
  IF result.kind = "throws" THEN {Send(h, 500, <<>>)}
  ELSE {Send(h, 201, result.rows)}

\* app.post(api.admin.challenges.create.path): the catch answers only a
\* ZodError
CreateChallengeRoute(h, result) ==
  IF result.kind = "throws" THEN {NoSend(h)}
  ELSE {Send(h, 201, result.rows)}

\* app.put(api.admin.challenges.update.path): the catch answers only a
\* ZodError
UpdateChallengeRoute(h, result) ==
  IF result.kind = "throws" THEN {NoSend(h)}
  ELSE IF result.kind = "undefined" THEN {Send(h, 404, <<>>)}
  ELSE {Send(h, 200, result.rows)}

\* app.delete(api.admin.challenges.delete.path): await deleteChallenge;
\* res.status(204).send()
DeleteChallengeRoute(h, result) ==
  IF result.kind = "throws" THEN Rejected(h) ELSE {Send(h, 204, <<>>)}

\* what the handler of h's route does once its storage call has settled
Responses(h, result) ==
  LET route == h.req.route
  IN  IF route \in {"getActiveChallenge", "getIntentions", "getChallenges"}
      THEN GetRoute(h, result)
      ELSE IF route \in {"incrementChallenge", "incrementIntentionPrayer",
                          "markIntentionPrinted"}
      THEN ByIdRoute(h, result)
      ELSE IF route = "createIntention" THEN CreateIntentionRoute(h, result)
      ELSE IF route = "createChallenge" THEN CreateChallengeRoute(h, result)
      ELSE IF route = "updateChallenge" THEN UpdateChallengeRoute(h, result)
      ELSE DeleteChallengeRoute(h, result)

\* A request arrives on p's connection and its handler runs up to its
\* first await.
Arrive(p, req) ==
  /\ http[p].phase \in {"idle", "done"} /\ IdleCaller(p)
  /\ http[p].served < MaxRequests
  /\ LET h == [Quiet EXCEPT !.req = req, !.before = Named(req),
                            !.served = http[p].served + 1]
     IN  http' = [http EXCEPT ![p] = IF Invalid(req) THEN Send(h, 400, <<>>)
                                      ELSE [h EXCEPT !.phase = "calling"]]
  /\ ret' = [ret EXCEPT ![p] = NoResult]
  /\ UNCHANGED <<backend, clock, pending, chVars, inVars, twin>>

\* the handler of the given route awaits its storage call, not yet begun
Calling(p, route) ==
  /\ http[p].phase = "calling" /\ http[p].req.route = route
  /\ ret[p].op = "none"

\* a statement of the awaited DatabaseStorage call rejects
StorageFails(p) ==
  /\ backend = "db"
  /\ http[p].phase = "calling" /\ ret[p].op = "none"
  /\ Complete(p, Result(http[p].req.route, "throws", <<>>, 0))
  /\ UNCHANGED <<backend, clock, chVars, inVars>>

\* the awaited call has settled and the handler runs to its end
Respond(p) ==
  /\ http[p].phase = "calling" /\ IdleCaller(p) /\ ret[p].op # "none"
  /\ \E h \in Responses(http[p], ret[p]) : http' = [http EXCEPT ![p] = h]
  /\ UNCHANGED <<backend, clock, pending, ret, chVars, inVars, twin>>

\* the storage call each handler makes
RouteCall(p) ==
  \/ Calling(p, "getActiveChallenge") /\ MemGetActiveChallenge(p)
  \/ Calling(p, "getActiveChallenge") /\ DbGetActiveChallenge(p)
  \/ Calling(p, "incrementChallenge") /\ MemIncrementChallenge(p, http[p].req.id, 1)
  \/ Calling(p, "incrementChallenge") /\ DbIncrementChallenge(p, http[p].req.id, 1)
  \/ Calling(p, "getChallenges") /\ MemGetChallenges(p)
  \/ Calling(p, "getChallenges") /\ DbGetChallenges(p)
  \/ Calling(p, "createChallenge") /\ MemCreateChallenge(p, http[p].req.input)
  \/ Calling(p, "createChallenge") /\ DbCreateChallenge(p, http[p].req.input)
  \/ Calling(p, "createChallenge") /\ DbCreateChallengeInsert(p)
  \/ Calling(p, "updateChallenge")
       /\ MemUpdateChallenge(p, http[p].req.id, http[p].req.input)
  \/ Calling(p, "updateChallenge")
       /\ DbUpdateChallenge(p, http[p].req.id, http[p].req.input)
  \/ Calling(p, "updateChallenge") /\ DbUpdateChallengeSet(p)
  \/ Calling(p, "deleteChallenge") /\ MemDeleteChallenge(p, http[p].req.id)
  \/ Calling(p, "deleteChallenge") /\ DbDeleteChallenge(p, http[p].req.id)
  \/ Calling(p, "getIntentions") /\ MemGetIntentions(p)
  \/ Calling(p, "getIntentions") /\ DbGetIntentions(p)
  \/ Calling(p, "createIntention") /\ MemCreateIntention(p, http[p].req.input)
  \/ Calling(p, "createIntention") /\ DbCreateIntention(p, http[p].req.input)
  \/ Calling(p, "incrementIntentionPrayer")
       /\ MemIncrementIntentionPrayer(p, http[p].req.id, http[p].req.type)
  \/ Calling(p, "incrementIntentionPrayer")
       /\ DbIncrementIntentionPrayerImpl(p, http[p].req.id, http[p].req.type)
  \/ Calling(p, "markIntentionPrinted") /\ MemMarkIntentionPrinted(p, http[p].req.id)
  \/ Calling(p, "markIntentionPrinted") /\ DbMarkIntentionPrinted(p, http[p].req.id)

(* The two stores side by side *)

EmptyStore ==
  [challenges |-> <<>>, intentions |-> <<>>, challengeId |-> 1, intentionId |-> 1]

NoCall == [op |-> "none"]

EmptyTwin ==
  [db |-> EmptyStore, mem |-> EmptyStore, call |-> NoCall,
   dbRet |-> NoResult, memRet |-> NoResult, calls |-> 0]

\* the IStorage calls, with their arguments
StorageCalls ==
  [op : {"createChallenge"}, input : CreateChallengeInputs]
  \cup [op : {"updateChallenge"}, id : ChallengeIds, updates : UpdateChallengeInputs]
  \cup [op : {"deleteChallenge"}, id : ChallengeIds]
  \cup [op : {"incrementChallenge"}, id : ChallengeIds, amount : Amounts]
  \cup [op : {"createIntention"}, input : CreateIntentionInputs]
  \cup [op : {"incrementIntentionPrayer"}, id : IntentionIds, type : PrayerTypes]
  \cup [op : {"markIntentionPrinted"}, id : IntentionIds]
  \cup {[op |-> "getActiveChallenge"], [op |-> "getChallenges"],
        [op |-> "getIntentions"]}

Outcome(store, result) == [store |-> store, ret |-> result]

\* DatabaseStorageImpl: the call run to completion on store st, with no
\* other call between its statements; the set of its possible outcomes
DbRun(st, call, now) ==
  IF call.op = "createChallenge"
  THEN LET cleared == IF Truthy(call.input.isActive)
                      THEN DbClearActive(st.challenges) ELSE st.challenges
           rows == DbInsertChallenge(cleared, call.input, st.challengeId, now)
       IN  {Outcome([st EXCEPT !.challenges = rows, !.challengeId = @ + 1],
                    Returning(call.op, 0, WhereId(rows, st.challengeId)))}
  ELSE IF call.op = "updateChallenge"
  THEN LET cleared == IF Truthy(call.updates.isActive)
                      THEN DbClearActive(st.challenges) ELSE st.challenges
           rows == DbSetChallenge(cleared, call.id, call.updates)
       IN  {Outcome([st EXCEPT !.challenges = rows],
                    Returning(call.op, call.id, WhereId(rows, call.id)))}
  ELSE IF call.op = "deleteChallenge"
  THEN {Outcome([st EXCEPT !.challenges = DbDeleteWhereId(@, call.id)],
                Result(call.op, "void", <<>>, call.id))}
  ELSE IF call.op = "incrementChallenge"
  THEN LET rows == DbAddCurrentCount(st.challenges, call.id, call.amount)
       IN  {Outcome([st EXCEPT !.challenges = rows],
                    Returning(call.op, call.id, WhereId(rows, call.id)))}
  ELSE IF call.op = "createIntention"
  THEN LET rows == DbInsertIntention(st.intentions, call.input, st.intentionId, now)
       IN  {Outcome([st EXCEPT !.intentions = rows, !.intentionId = @ + 1],
                    Returning(call.op, 0, WhereId(rows, st.intentionId)))}
  ELSE IF call.op = "incrementIntentionPrayer"
  THEN LET rows == DbAddPrayer(st.intentions, call.id, call.type)
       IN  {Outcome([st EXCEPT !.intentions = rows],
                    Returning(call.op, call.id, WhereId(rows, call.id)))}
  ELSE IF call.op = "markIntentionPrinted"
  THEN LET rows == DbSetPrinted(st.intentions, call.id)
       IN  {Outcome([st EXCEPT !.intentions = rows],
                    Returning(call.op, call.id, WhereId(rows, call.id)))}
  ELSE IF call.op = "getActiveChallenge"
  THEN LET active == DbActiveRows(st.challenges)
       IN  IF active = <<>> THEN {Outcome(st, Returning(call.op, 0, <<>>))}
           ELSE {Outcome(st, Returning(call.op, 0, <<active[i]>>)) : i \in DOMAIN active}
  ELSE IF call.op = "getChallenges"
  THEN {Outcome(st, Result(call.op, "list", rows, 0)) : rows \in OrderByDesc(st.challenges)}
  ELSE {Outcome(st, Result(call.op, "list", rows, 0)) : rows \in OrderByDesc(st.intentions)}

\* InMemoryStorage: the call run on store st
MemRun(st, call, now) ==
  IF call.op = "createChallenge"
  THEN LET rows == MemCreateChallengeRows(st.challenges, call.input, st.challengeId, now)
       IN  Outcome([st EXCEPT !.challenges = rows, !.challengeId = @ + 1],
                   Returning(call.op, 0, WhereId(rows, st.challengeId)))
  ELSE IF call.op = "updateChallenge"
  THEN IF WhereId(st.challenges, call.id) = <<>>
       THEN Outcome(st, Returning(call.op, call.id, <<>>))
       ELSE LET rows == MemUpdateChallengeRows(st.challenges, call.id, call.updates)
            IN  Outcome([st EXCEPT !.challenges = rows],
                        Returning(call.op, call.id, WhereId(rows, call.id)))
  ELSE IF call.op = "deleteChallenge"
  THEN Outcome([st EXCEPT !.challenges = MemDeleteFilter(@, call.id)],
               Result(call.op, "void", <<>>, call.id))
  ELSE IF call.op = "incrementChallenge"
  THEN LET rows == MemAddCurrentCount(st.challenges, call.id, call.amount)
       IN  Outcome([st EXCEPT !.challenges = rows],
                   Returning(call.op, call.id, WhereId(rows, call.id)))
  ELSE IF call.op = "createIntention"
  THEN LET rows == MemCreateIntentionRows(st.intentions, call.input, st.intentionId, now)
       IN  Outcome([st EXCEPT !.intentions = rows, !.intentionId = @ + 1],
                   Returning(call.op, 0, WhereId(rows, st.intentionId)))
  ELSE IF call.op = "incrementIntentionPrayer"
  THEN LET rows == MemAddPrayer(st.intentions, call.id, call.type)
       IN  Outcome([st EXCEPT !.intentions = rows],
                   Returning(call.op, call.id, WhereId(rows, call.id)))
  ELSE IF call.op = "markIntentionPrinted"
  THEN LET rows == MemSetPrinted(st.intentions, call.id)
       IN  Outcome([st EXCEPT !.intentions = rows],
                   Returning(call.op, call.id, WhereId(rows, call.id)))
  ELSE IF call.op = "getActiveChallenge"
  THEN Outcome(st, Returning(call.op, 0, MemFindActive(st.challenges)))
  ELSE IF call.op = "getChallenges"
  THEN Outcome(st, Result(call.op, "list", SortDescStable(st.challenges), 0))
  ELSE Outcome(st, Result(call.op, "list", SortDescStable(st.intentions), 0))

\* One IStorage call is made on both stores, each running it to completion.
TwinCall(call) ==
  /\ twin.calls < MaxCalls
  /\ \E out \in DbRun(twin.db, call, clock) :
       LET mem == MemRun(twin.mem, call, clock)
       IN  twin' = [db |-> out.store, mem |-> mem.store, call |-> call,
                    dbRet |-> out.ret, memRet |-> mem.ret,
                    calls |-> twin.calls + 1]
  /\ UNCHANGED <<backend, clock, pending, ret, chVars, inVars, http>>

----------------------------------------------------------------------------
(* Construction: storage.ts picks the store from DATABASE_URL, then
   seedDatabase() of routes.ts fills the empty tables through the store. *)

SeedChallenge ==
  [title |-> "Weekly Rosary Challenge", isActive |-> "true",
   currentCount |-> <<SeedCurrentCount>>]

SeedIntention1 ==
  [content |-> "For peace", name |-> "Maria", prayerType |-> "Rosary",
   hailMaryCount |-> <<SeedHailMary1>>, ourFatherCount |-> <<SeedOurFather1>>,
   rosaryCount |-> <<SeedRosary1>>, isPrinted |-> "false"]

SeedIntention2 ==
  [content |-> "For clarity", name |-> "Anonymous", prayerType |-> "Hail Mary",
   hailMaryCount |-> <<SeedHailMary2>>, ourFatherCount |-> <<0>>,
   rosaryCount |-> <<0>>, isPrinted |-> "false"]

SeededChallenges(b) ==
  IF b = "db" THEN DbInsertChallenge(DbClearActive(<<>>), SeedChallenge, 1, 0)
  ELSE MemCreateChallengeRows(<<>>, SeedChallenge, 1, 0)

SeededIntentions(b) ==
  IF b = "db"
  THEN DbInsertIntention(DbInsertIntention(<<>>, SeedIntention1, 1, 0),
                         SeedIntention2, 2, 0)
  ELSE MemCreateIntentionRows(MemCreateIntentionRows(<<>>, SeedIntention1, 1, 0),
                              SeedIntention2, 2, 0)

Init ==
  /\ backend \in {"db", "memory"}
  /\ challenges = SeededChallenges(backend)
  /\ intentions = SeededIntentions(backend)
  /\ challengeId = 2
  /\ intentionId = 3
  /\ clock = 0
  /\ pending = [p \in Callers |-> Idle]
  /\ ret = [p \in Callers |-> NoResult]
  /\ lastActivated = 1
  /\ deleted = {}
  /\ chAdded = [i \in ChallengeIds |-> 0]
  /\ inAdded = [i \in IntentionIds |-> [t \in PrayerTypes |-> 0]]
  /\ created = {}
  /\ marked = {}
  /\ http = [p \in Callers |-> Quiet]
  /\ twin = EmptyTwin

ChallengeCall(p) ==
  \/ \E input \in CreateChallengeInputs : MemCreateChallenge(p, input)
  \/ MemGetChallenges(p)
  \/ MemGetActiveChallenge(p)
  \/ \E id \in ChallengeIds, u \in UpdateChallengeInputs : MemUpdateChallenge(p, id, u)
  \/ \E id \in ChallengeIds : MemDeleteChallenge(p, id)
  \/ \E id \in ChallengeIds, a \in Amounts : MemIncrementChallenge(p, id, a)
  \/ \E input \in CreateChallengeInputs : DbCreateChallenge(p, input)
  \/ DbCreateChallengeInsert(p)
  \/ DbGetChallenges(p)
  \/ DbGetActiveChallenge(p)
  \/ \E id \in ChallengeIds, u \in UpdateChallengeInputs : DbUpdateChallenge(p, id, u)
  \/ DbUpdateChallengeSet(p)
  \/ \E id \in ChallengeIds : DbDeleteChallenge(p, id)
  \/ \E id \in ChallengeIds, a \in Amounts : DbIncrementChallenge(p, id, a)

IntentionCall(p) ==
  \/ \E input \in CreateIntentionInputs : MemCreateIntention(p, input)
  \/ MemGetIntentions(p)
  \/ \E id \in IntentionIds, t \in PrayerTypes : MemIncrementIntentionPrayer(p, id, t)
  \/ \E id \in IntentionIds : MemMarkIntentionPrinted(p, id)
  \/ \E input \in CreateIntentionInputs : DbCreateIntention(p, input)
  \/ DbGetIntentions(p)
  \/ \E id \in IntentionIds, t \in PrayerTypes : DbIncrementIntentionPrayerImpl(p, id, t)
  \/ \E id \in IntentionIds : DbMarkIntentionPrinted(p, id)

(* Calls that ask for isActive = true *)
ActivatingCreates == {i \in CreateChallengeInputs : Truthy(i.isActive)}
ActivatingUpdates == {u \in UpdateChallengeInputs : Truthy(u.isActive)}

ActivationCall(p) ==
  \/ \E input \in ActivatingCreates : MemCreateChallenge(p, input)
  \/ \E id \in ChallengeIds, u \in ActivatingUpdates : MemUpdateChallenge(p, id, u)
  \/ \E input \in ActivatingCreates : DbCreateChallenge(p, input)
  \/ DbCreateChallengeInsert(p)
  \/ \E id \in ChallengeIds, u \in ActivatingUpdates : DbUpdateChallenge(p, id, u)
  \/ DbUpdateChallengeSet(p)

CounterCall(p) ==
  \/ \E id \in ChallengeIds, a \in Amounts : MemIncrementChallenge(p, id, a)
  \/ \E id \in ChallengeIds, a \in Amounts : DbIncrementChallenge(p, id, a)
  \/ \E id \in IntentionIds, t \in PrayerTypes : MemIncrementIntentionPrayer(p, id, t)
  \/ \E id \in IntentionIds, t \in PrayerTypes : DbIncrementIntentionPrayerImpl(p, id, t)

ByIdCall(p) ==
  \/ \E id \in ChallengeIds, u \in UpdateChallengeInputs : MemUpdateChallenge(p, id, u)
  \/ \E id \in ChallengeIds, u \in UpdateChallengeInputs : DbUpdateChallenge(p, id, u)
  \/ DbUpdateChallengeSet(p)
  \/ \E id \in ChallengeIds : MemDeleteChallenge(p, id)
  \/ \E id \in ChallengeIds : DbDeleteChallenge(p, id)
  \/ \E id \in ChallengeIds, a \in Amounts : MemIncrementChallenge(p, id, a)
  \/ \E id \in ChallengeIds, a \in Amounts : DbIncrementChallenge(p, id, a)
  \/ \E id \in IntentionIds, t \in PrayerTypes : MemIncrementIntentionPrayer(p, id, t)
  \/ \E id \in IntentionIds, t \in PrayerTypes : DbIncrementIntentionPrayerImpl(p, id, t)
  \/ \E id \in IntentionIds : MemMarkIntentionPrinted(p, id)
  \/ \E id \in IntentionIds : DbMarkIntentionPrinted(p, id)

(* One caller at a time on the challenges table: every call runs to
   completion before the next starts. *)
Next == ChallengeCall(1)

Spec == Init /\ [][Next]_vars

(* Two callers activating challenges, their calls interleaved at the
   awaits, and time passing. *)
NextConc == (\E p \in Callers : ActivationCall(p)) \/ Tick

SpecConc == Init /\ [][NextConc]_vars

(* One caller at a time on the intentions table. *)
NextIntentions == IntentionCall(1)

SpecIntentions == Init /\ [][NextIntentions]_vars

(* Callers incrementing counters of both tables. *)
NextCounters == \E p \in Callers : CounterCall(p)

SpecCounters == Init /\ [][NextCounters]_vars

(* One caller issuing the calls that address a record by id. *)
NextById == ByIdCall(1)

SpecById == Init /\ [][NextById]_vars

(* One client: requests arrive at the route handlers one at a time. *)
NextRoutes ==
  \/ \E req \in Requests : Arrive(1, req)
  \/ RouteCall(1)
  \/ StorageFails(1)
  \/ Respond(1)

SpecRoutes == Init /\ [][NextRoutes]_vars

(* Both stores, started empty, given the same sequence of calls. *)
NextTwin == (\E call \in StorageCalls : TwinCall(call)) \/ Tick

SpecTwin == Init /\ [][NextTwin]_vars

----------------------------------------------------------------------------
(* Properties *)

ActiveIds(chs) == {chs[i].id : i \in {j \in DOMAIN chs : chs[j].isActive = "true"}}

AllIdle == \A p \in Callers : IdleCaller(p)

\* caller p's last completed call asked for isActive = true and returned
\* the challenge it stored
Activated(p) ==
  /\ ret[p].op \in {"createChallenge", "updateChallenge"}
  /\ ret[p].asked = "true"
  /\ ret[p].kind = "value"

Target(p) == ret[p].rows[1].id

\* C1: whenever no call is in progress, at most one challenge has
\* isActive = true (either store; any accepted arguments, a create that
\* omits isActive included).
C1_AtMostOneActive ==
  AllIdle => Cardinality(ActiveIds(challenges)) <= 1

\* C2: once two callers have both completed calls that activated different
\* challenges, the two challenges are not both active.
C2_RaceNotBothActive ==
  \A p, q \in Callers :
    (/\ p # q /\ AllIdle
     /\ Activated(p) /\ Activated(q)
     /\ Target(p) # Target(q))
    => ~({Target(p), Target(q)} \subseteq ActiveIds(challenges))

\* C3: once two callers have both completed calls that activated different
\* challenges, at least one of the two challenges is active.
C3_RaceNotZeroActive ==
  \A p, q \in Callers :
    (/\ p # q /\ AllIdle
     /\ Activated(p) /\ Activated(q)
     /\ Target(p) # Target(q))
    => ({Target(p), Target(q)} \cap ActiveIds(challenges)) # {}

\* C3 witness: both callers have completed activations of different
\* challenges whose steps interleaved (both clears ran before either set).
C3_Witness ==
  /\ backend = "db" /\ AllIdle
  /\ Activated(1) /\ Activated(2)
  /\ Target(1) # Target(2)
  /\ ActiveIds(challenges) = {Target(1), Target(2)}

\* the value a challenge's / an intention's counter had when the record
\* was stored: the seed's, or the default 0
InitialCurrentCount(id) == IF id = 1 THEN SeedCurrentCount ELSE 0

InitialPrayerCount(id, type) ==
  IF id = 1
  THEN (IF type = "hailMary" THEN SeedHailMary1
        ELSE IF type = "ourFather" THEN SeedOurFather1 ELSE SeedRosary1)
  ELSE IF id = 2 /\ type = "hailMary" THEN SeedHailMary2 ELSE 0

PrayerCount(row, type) ==
  IF type = "hailMary" THEN row.hailMaryCount
  ELSE IF type = "ourFather" THEN row.ourFatherCount ELSE row.rosaryCount

C5_ActivationExclusive ==
  (AllIdle /\ Activated(1)) => ActiveIds(challenges) = {Target(1)}

\* C5 witness: an update asking for isActive = true has completed on the
\* second challenge, and the seeded one, active before, is stored inactive
\* with its other fields as seeded.
C5_Witness ==
  /\ AllIdle /\ Activated(1)
  /\ ret[1].op = "updateChallenge" /\ Target(1) = 2
  /\ \E i \in DOMAIN challenges :
       /\ challenges[i].id = 1
       /\ challenges[i].isActive = "false"
       /\ challenges[i].title = SeedChallenge.title

\* C6: a challenge created without isActive is stored active and is, after
\* the create, the only active challenge.
C6_DefaultCreateExclusive ==
  (/\ AllIdle
   /\ ret[1].op = "createChallenge" /\ ret[1].asked = "undefined")
  => /\ WhereId(challenges, Target(1))[1].isActive = "true"
     /\ ActiveIds(challenges) = {Target(1)}

\* C7: when no call is in progress and the last call was getActiveChallenge,
\* it returned the challenge most recently stored active by a create or an
\* update if that challenge is still active, and undefined if no challenge
\* is active.
C7_GetActiveIsLastActivated ==
  (AllIdle /\ ret[1].op = "getActiveChallenge")
  => /\ lastActivated \in ActiveIds(challenges)
          => ret[1].kind = "value" /\ Target(1) = lastActivated
     /\ ActiveIds(challenges) = {} => ret[1].kind = "undefined"

\* C8: a getChallenges or getActiveChallenge that completes after a
\* deleteChallenge removed a challenge returns no challenge with its id, and
\* the step that removes a challenge makes no other challenge active.
C8_DeletedStaysGone ==
  /\ [](\A p \in Callers :
          ret[p].op \in {"getChallenges", "getActiveChallenge"}
          => \A i \in DOMAIN ret[p].rows : ret[p].rows[i].id \notin deleted)
  /\ [][deleted' # deleted
        => ActiveIds(challenges') \subseteq ActiveIds(challenges)]_vars

\* C8 witness: the challenge last stored active has been deleted, another
\* challenge is stored, and getActiveChallenge has returned undefined.
C8_Witness ==
  /\ lastActivated \in deleted
  /\ challenges # <<>>
  /\ ret[1].op = "getActiveChallenge" /\ ret[1].kind = "undefined"

ById == {"incrementIntentionPrayer", "markIntentionPrinted",
         "incrementChallenge", "updateChallenge"}

\* the table a call by id looks its record up in
TableOf(op) ==
  IF op \in {"incrementIntentionPrayer", "markIntentionPrinted"}
  THEN intentions ELSE challenges

SameName(stored, given) ==
  stored = given \/ (given = "undefined" /\ stored = "null")

UniqueId(rows, i) == \A j \in DOMAIN rows : j # i => rows[j].id # rows[i].id

\* C10 as stated: every getIntentions result after a createIntention holds a
\* record with that content and name whose three counters are 0 and whose
\* isPrinted is false, with a createdAt and an id no other record has.
C10_CreatedStaysZero ==
  (ret[1].op = "getIntentions")
  => \A c \in created :
       \E i \in DOMAIN ret[1].rows :
         LET r == ret[1].rows[i]
         IN  /\ r.content = c.content /\ SameName(r.name, c.name)
             /\ r.hailMaryCount = 0 /\ r.ourFatherCount = 0 /\ r.rosaryCount = 0
             /\ r.isPrinted = "false"
             /\ r.createdAt = c.at
             /\ UniqueId(ret[1].rows, i)

\* C10 amended: every getIntentions result after a createIntention holds a
\* record with the generated id, that content and name and its createdAt,
\* the id differing from every other record's; each of its counters is the
\* number of increments completed on it since (0 until the first) and its
\* isPrinted is false until a markIntentionPrinted on it completes.
C10_CreatedListed ==
  (ret[1].op = "getIntentions")
  => \A c \in created :
       \E i \in DOMAIN ret[1].rows :
         LET r == ret[1].rows[i]
         IN  /\ r.id = c.id
             /\ r.content = c.content /\ SameName(r.name, c.name)
             /\ \A t \in PrayerTypes : PrayerCount(r, t) = inAdded[c.id][t]
             /\ r.isPrinted = (IF c.id \in marked THEN "true" ELSE "false")
             /\ r.createdAt = c.at
             /\ UniqueId(ret[1].rows, i)

\* C10 witness: getIntentions has returned an intention created with
\* {content: "Test", name: "Anon"}, its counters 0 and isPrinted false.
C10_Witness ==
  /\ ret[1].op = "getIntentions"
  /\ \E c \in created : \E i \in DOMAIN ret[1].rows :
       LET r == ret[1].rows[i]
       IN  /\ r.id = c.id /\ c.content = "Test" /\ c.name = "Anon"
           /\ r.content = "Test" /\ r.name = "Anon"
           /\ r.hailMaryCount = 0 /\ r.ourFatherCount = 0 /\ r.rosaryCount = 0
           /\ r.isPrinted = "false"

\* p's handler for the given route has run to its end, its storage call
\* having settled without an error
Served(p, route) ==
  /\ http[p].req.route = route /\ http[p].phase = "done"
  /\ ret[p].op = route /\ ret[p].kind # "throws"

\* C11: the delete-challenge endpoint has answered 204 when its id named a
\* stored challenge and 404 when its id named no challenge.
C11_DeleteAnswers204Or404 ==
  \A p \in Callers :
    Served(p, "deleteChallenge")
    => /\ http[p].sent = 1
       /\ http[p].status = (IF http[p].before # <<>> THEN 204 ELSE 404)

\* C12: the increment-challenge endpoint, called on a stored challenge with
\* a positive amount, has answered 200 with that challenge, whose stored
\* currentCount is the one before the request plus the amount.
C12_IncrementByAmount ==
  \A p \in Callers :
    (Served(p, "incrementChallenge") /\ http[p].before # <<>>)
    => /\ http[p].status = 200
       /\ http[p].body = WhereId(challenges, http[p].req.id)
       /\ http[p].body[1].currentCount =
            http[p].before[1].currentCount + http[p].req.amount

\* C13: every step of a call that returns undefined (not found) leaves both
\* tables as they were: the step that completes it, and the first statement
\* of an updateChallenge whose id matches no challenge; so a challenge that
\* was active before updateChallenge(id, {isActive: true}) on a missing id
\* is still active after it.
C13_NotFoundChangesNothing ==
  [][(\/ /\ pending'[1].op = "idle"
         /\ ret'[1].kind = "undefined"
      \/ /\ pending'[1].op = "updateChallenge"
         /\ WhereId(challenges, pending'[1].id) = <<>>)
     => /\ challenges' = challenges
        /\ intentions' = intentions]_vars

\* the fields of an intention that a prayer increment must leave alone
SameButCounters(r, q) ==
  /\ r.id = q.id /\ r.content = q.content /\ r.name = q.name
  /\ r.prayerType = q.prayerType /\ r.isPrinted = q.isPrinted
  /\ r.createdAt = q.createdAt

\* C14: the step in which incrementIntentionPrayer(id, type) finds its
\* intention raises that intention's counter named by type by 1 and changes
\* nothing else of it, no other intention and no challenge; and in every
\* step every stored intention stays stored, none of its counters decreases
\* and its isPrinted, once true, stays true.
C14_IncrementTouchesOneCounter ==
  [][/\ (ret'[1].op = "incrementIntentionPrayer" /\ ret'[1].kind = "value"
         /\ pending[1].op = "idle")
        => \E t \in PrayerTypes :
             /\ inAdded' = [inAdded EXCEPT ![ret'[1].id][t] = @ + 1]
             /\ DOMAIN intentions' = DOMAIN intentions
             /\ \A i \in DOMAIN intentions :
                  IF intentions[i].id = ret'[1].id
                  THEN /\ PrayerCount(intentions'[i], t) = PrayerCount(intentions[i], t) + 1
                       /\ \A u \in PrayerTypes \ {t} :
                            PrayerCount(intentions'[i], u) = PrayerCount(intentions[i], u)
                       /\ SameButCounters(intentions'[i], intentions[i])
                  ELSE intentions'[i] = intentions[i]
             /\ challenges' = challenges
     /\ \A i \in DOMAIN intentions :
          /\ i \in DOMAIN intentions'
          /\ intentions'[i].id = intentions[i].id
          /\ \A u \in PrayerTypes :
               PrayerCount(intentions'[i], u) >= PrayerCount(intentions[i], u)
          /\ intentions[i].isPrinted = "true" => intentions'[i].isPrinted = "true"]_vars

\* C14 witness: incrementIntentionPrayer(1, 'ourFather') has returned the
\* first seeded intention, marked printed before, with ourFatherCount one
\* above the seed's and the other two counters as seeded.
C14_Witness ==
  /\ ret[1].op = "incrementIntentionPrayer" /\ ret[1].kind = "value"
  /\ ret[1].id = 1 /\ inAdded[1]["ourFather"] = 1
  /\ ret[1].rows[1].ourFatherCount = SeedOurFather1 + 1
  /\ ret[1].rows[1].hailMaryCount = SeedHailMary1
  /\ ret[1].rows[1].rosaryCount = SeedRosary1
  /\ ret[1].rows[1].isPrinted = "true"

Getters == {"getActiveChallenge", "getChallenges", "getIntentions"}

\* C15: started empty and given the same calls, the database-backed store
\* and the in-memory store have returned the same kind of result (a value,
\* undefined, a list) to the last call, and the same records to a
\* getActiveChallenge, getChallenges or getIntentions.
C15_StoresAgree ==
  /\ twin.dbRet.kind = twin.memRet.kind
  /\ twin.call.op \in Getters
       => Range(twin.dbRet.rows) = Range(twin.memRet.rows)

Retriable == {"createIntention", "createChallenge", "updateChallenge",
              "deleteChallenge", "markIntentionPrinted"}

TablesOf(st) == <<st.challenges, st.intentions>>

\* the counter of store st that an increment call raises
CounterOf(st, call) ==
  IF call.op = "incrementChallenge"
  THEN WhereId(st.challenges, call.id)[1].currentCount
  ELSE PrayerCount(WhereId(st.intentions, call.id)[1], call.type)

DeltaOf(call) == IF call.op = "incrementChallenge" THEN call.amount ELSE 1

\* C16: a step that applies again the call just applied, with the same
\* arguments, leaves the tables of both stores as the first application
\* left them when the call is createIntention, createChallenge,
\* updateChallenge, deleteChallenge or markIntentionPrinted, and raises the
\* counter once more when the call is an increment that finds its record.
C16_RetrySafeButIncrements ==
  [][(twin'.calls = twin.calls + 1 /\ twin'.call = twin.call)
     => /\ twin.call.op \in Retriable
             => /\ TablesOf(twin'.db) = TablesOf(twin.db)
                /\ TablesOf(twin'.mem) = TablesOf(twin.mem)
        /\ (/\ twin.call.op \in {"incrementChallenge", "incrementIntentionPrayer"}
            /\ twin.dbRet.kind = "value")
             => /\ CounterOf(twin'.db, twin.call)
                     = CounterOf(twin.db, twin.call) + DeltaOf(twin.call)
                /\ CounterOf(twin'.mem, twin.call)
                     = CounterOf(twin.mem, twin.call) + DeltaOf(twin.call)]_vars

\* C17: a handler that has run to its end has written exactly one response
\* to its request: 400 when validation failed, a generic error (500) when
\* the storage call failed, 404 when a call by id found no record.
C17_EveryRequestAnswered ==
  \A p \in Callers :
    http[p].phase = "done"
    => /\ http[p].sent = 1
       /\ Invalid(http[p].req) => http[p].status = 400
       /\ (~Invalid(http[p].req) /\ ret[p].kind = "throws") => http[p].status = 500
       /\ (/\ ~Invalid(http[p].req) /\ ret[p].kind = "undefined"
           /\ http[p].req.route # "getActiveChallenge") => http[p].status = 404

====
